---- MODULE Spec2Model ----
(***************************************************************************)
(* Lifeflow backend: habit check-ins, streaks and notification generation. *)
(*                                                                         *)
(* The store (task_cards, checkin_records, notifications, settings) is the *)
(* record db.  Dates are day numbers, instants are minutes since an epoch.  *)
(* Optional values are << >> (None) or <<v>>.                              *)
(***************************************************************************)
EXTENDS Integers, Sequences, FiniteSets, Bags, TLC

VARIABLES
  db,        \* [tasks, checkins, notifs, settings]: the rows of the four tables
  allocated, \* task ids uuid4 has already handed out
  now,       \* the UTC instant, in minutes
  serverTz,  \* the server process's zone, minutes west of UTC (date.today())
  resp,      \* the response of the last API call
  hist,      \* per task: the local dates its check-in calls resolved (ghost)
  sess,      \* the in-flight check-in requests, one session each
  probe      \* the streak engine's harness: inputs and result

vars == <<db, allocated, now, serverTz, resp, hist, sess, probe>>

-----------------------------------------------------------------------------
(* Bounds of the model *)

MaxNow == 3
MaxServed == 1
MaxGenNow == 1
MaxAchDays == 1
MaxPosted == 1
MaxDaily == 2
MaxCheckins == 3
MaxInbox == 3
MaxDate == 4
MaxStreak == 4

-----------------------------------------------------------------------------
(* Time *)

MinutesPerDay == 24 * 60
Tick == MinutesPerDay \div 2
Offsets == {0 - Tick, 0, Tick}

None == << >>
Some(v) == <<v>>

\* datetime.date(): the calendar day an instant falls in
DateOf(instant) == instant \div MinutesPerDay

get_local_date(timezone_offset_minutes) ==
  LET utc_now == now
      local_time == utc_now - timezone_offset_minutes
  IN DateOf(local_time)

\* date.today(): the date in the server process's own zone
date_today == DateOf(now - serverTz)

-----------------------------------------------------------------------------
(* Streak engine *)

calculate_streak_skips_gap(last_checkin_date, current_streak, today) ==
  IF last_checkin_date = None THEN 1
  ELSE IF last_checkin_date = Some(today) THEN current_streak
  ELSE IF today - last_checkin_date[1] >= 1 THEN current_streak + 1
  ELSE 1

calculate_streak_no_increment(last_checkin_date, current_streak, today) ==
  IF last_checkin_date = None THEN 1
  ELSE IF last_checkin_date = Some(today) THEN current_streak
  ELSE IF today - last_checkin_date[1] = 1 THEN current_streak
  ELSE 1

calculate_streak(last_checkin_date, current_streak, today) ==
  IF last_checkin_date = None THEN 1
  ELSE IF last_checkin_date = Some(today) THEN current_streak
  ELSE LET days_since_last == today - last_checkin_date[1]
       IN IF days_since_last = 1 THEN current_streak + 1 ELSE 1

-----------------------------------------------------------------------------
(* The store *)

EmptyDb ==
  [tasks |-> << >>, checkins |-> EmptyBag, notifs |-> EmptyBag, settings |-> << >>]

\* TaskCard(...) as create_task builds it; the streak columns take their defaults
NewTask(is_habit) ==
  [is_habit |-> is_habit, is_deleted |-> FALSE, current_streak |-> 0,
   longest_streak |-> 0, last_checkin_date |-> None]

HasTask(d, task_id) == task_id \in DOMAIN d.tasks

\* the number of rows of bag B that lie in the set S
RECURSIVE BagSum(_, _)
BagSum(B, S) ==
  IF S = {} THEN 0
  ELSE LET x == CHOOSE y \in S : TRUE IN CopiesIn(x, B) + BagSum(B, S \ {x})

\* a row of checkin_records
CheckinRecord(task_id, day, time) ==
  [task_id |-> task_id, checkin_date |-> day, checkin_time |-> time]

\* CheckinRecord(task_id=task_id, checkin_date=today, checkin_time=now)
CheckinRow(task_id, day) == CheckinRecord(task_id, day, now)

\* the number of rows of checkin_records with this task and date
Recorded(d, task_id, day) ==
  BagSum(d.checkins, {x \in BagToSet(d.checkins) :
                        x.task_id = task_id /\ x.checkin_date = day})

ExistingCheckins_utc_date(d, task_id, today) ==
  Recorded(d, task_id, DateOf(now))

\* the rows SELECT ... WHERE task_id = :t AND checkin_date = :today returns
ExistingCheckins(d, task_id, today) == Recorded(d, task_id, today)

\* Result.scalar_one_or_none(): None, the row, or MultipleResultsFound
ScalarOneOrNone(rows) == IF rows = 0 THEN "none" ELSE IF rows = 1 THEN "one" ELSE "raise"

StreakColumns == {"current_streak", "longest_streak", "last_checkin_date"}

AssignedStreak_keeps_date(snap, today) ==
  LET new_streak == calculate_streak(snap.last_checkin_date, snap.current_streak, today)
  IN [current_streak |-> new_streak,
      last_checkin_date |-> IF snap.last_checkin_date = None
                            THEN Some(today) ELSE snap.last_checkin_date,
      longest_streak |-> IF new_streak > snap.longest_streak
                         THEN new_streak ELSE snap.longest_streak]

AssignedStreak_keeps_longest(snap, today) ==
  [current_streak |-> calculate_streak(snap.last_checkin_date, snap.current_streak, today),
   last_checkin_date |-> Some(today),
   longest_streak |-> snap.longest_streak]

\* what checkin_task assigns to the task object it loaded (snap)
AssignedStreak(snap, today) ==
  LET new_streak == calculate_streak(snap.last_checkin_date, snap.current_streak, today)
  IN [current_streak |-> new_streak,
      last_checkin_date |-> Some(today),
      longest_streak |-> IF new_streak > snap.longest_streak
                         THEN new_streak ELSE snap.longest_streak]

CommitCheckin_deferred(d, task_id, snap, today) == d

CommitCheckin_increments_row(d, task_id, snap, today) ==
  LET assigned == AssignedStreak(snap, today)
      row == d.tasks[task_id]
  IN [d EXCEPT !.checkins = @ (+) SetToBag({CheckinRow(task_id, today)}),
               !.tasks = [@ EXCEPT ![task_id] =
                 [row EXCEPT !.current_streak = @ + (assigned.current_streak - snap.current_streak),
                             !.longest_streak = @ + (assigned.longest_streak - snap.longest_streak),
                             !.last_checkin_date = assigned.last_checkin_date]]]

\* db.add(checkin_record); ...; db.commit(): the INSERT and the UPDATE of the
\* columns whose value differs from the one the session loaded, as one unit
CommitCheckin(d, task_id, snap, today) ==
  LET assigned == AssignedStreak(snap, today)
      row == d.tasks[task_id]
      written == [c \in DOMAIN row |->
                    IF c \in StreakColumns /\ assigned[c] # snap[c]
                    THEN assigned[c] ELSE row[c]]
  IN [d EXCEPT !.checkins = @ (+) SetToBag({CheckinRow(task_id, today)}),
               !.tasks = [@ EXCEPT ![task_id] = written]]

-----------------------------------------------------------------------------
(* Notification service *)

ACHIEVEMENT_MILESTONES == {7, 14, 30, 60, 100}

\* a row of notifications; the data payload is the fields habit_id .. date
Notification(type, habit_id, current_streak, at_risk, milestone, count, day) ==
  [type |-> type, habit_id |-> habit_id, current_streak |-> current_streak,
   at_risk |-> at_risk, milestone |-> milestone, completed_count |-> count,
   date |-> day, is_read |-> FALSE, created_at |-> now]

_create_notification(d, n) == [d EXCEPT !.notifs = @ (+) SetToBag({n})]

\* created_at >= start_of_day_utc AND created_at < end_of_day_utc
InUtcDay(n) ==
  LET start_of_day_utc == DateOf(now) * MinutesPerDay
      end_of_day_utc == start_of_day_utc + MinutesPerDay
  IN n.created_at >= start_of_day_utc /\ n.created_at < end_of_day_utc

Rows(d) == BagToSet(d.notifs)

_check_existing_reminder_any_kind(d, habit_id) ==
  \E n \in Rows(d) : /\ n.type = "habit_reminder" /\ InUtcDay(n)
                     /\ n.habit_id = Some(habit_id)

_check_existing_reminder(d, habit_id) ==
  \E n \in Rows(d) : /\ n.type = "habit_reminder" /\ InUtcDay(n)
                     /\ n.habit_id = Some(habit_id) /\ ~n.at_risk

_check_existing_at_risk(d, habit_id) ==
  \E n \in Rows(d) : /\ n.type = "habit_reminder" /\ InUtcDay(n)
                     /\ n.habit_id = Some(habit_id) /\ n.at_risk

_check_existing_achievement_today(d, habit_id, milestone) ==
  \E n \in Rows(d) : /\ n.type = "achievement" /\ InUtcDay(n)
                     /\ n.habit_id = Some(habit_id) /\ n.milestone = Some(milestone)

_check_existing_achievement(d, habit_id, milestone) ==
  \E n \in Rows(d) : /\ n.type = "achievement"
                     /\ n.habit_id = Some(habit_id) /\ n.milestone = Some(milestone)

\* the number of daily_complete rows of the current UTC day
DailyCompleteRows(d) ==
  LET S == {n \in Rows(d) : n.type = "daily_complete" /\ InUtcDay(n)}
      RECURSIVE Sum(_)
      Sum(T) == IF T = {} THEN 0
                ELSE LET n == CHOOSE x \in T : TRUE
                     IN CopiesIn(n, d.notifs) + Sum(T \ {n})
  IN Sum(S)

ActiveHabits(d) ==
  {t \in DOMAIN d.tasks : d.tasks[t].is_habit /\ ~d.tasks[t].is_deleted}

AchievementNotification(habit_id, streak) ==
  Notification("achievement", Some(habit_id), Some(streak), FALSE, Some(streak), None, None)

DailyCompleteNotification(count, today) ==
  Notification("daily_complete", None, None, FALSE, None, Some(count), Some(today))

check_streak_achievement_from_first(d, habit_id, streak) ==
  IF streak < 7 THEN d
  ELSE IF _check_existing_achievement(d, habit_id, streak) THEN d
  ELSE _create_notification(d, AchievementNotification(habit_id, streak))

check_streak_achievement(d, habit_id, streak) ==
  IF streak \notin ACHIEVEMENT_MILESTONES THEN d
  ELSE IF _check_existing_achievement(d, habit_id, streak) THEN d
  ELSE _create_notification(d, AchievementNotification(habit_id, streak))

ReminderNotification(habit_id, current_streak) ==
  Notification("habit_reminder", Some(habit_id), Some(current_streak), FALSE, None, None, None)

AtRiskNotification(habit_id, current_streak) ==
  Notification("habit_reminder", Some(habit_id), Some(current_streak), TRUE, None, None, None)

AtRiskHabits_any_streak(d) ==
  {t \in DOMAIN d.tasks :
     /\ d.tasks[t].is_habit /\ ~d.tasks[t].is_deleted
     /\ d.tasks[t].last_checkin_date # None
     /\ d.tasks[t].last_checkin_date # Some(date_today)}

\* select(TaskCard).where(is_habit, not is_deleted, current_streak > 0,
\* last_checkin_date != today); a NULL date never satisfies != in SQL
AtRiskHabits(d) ==
  {t \in DOMAIN d.tasks :
     /\ d.tasks[t].is_habit /\ ~d.tasks[t].is_deleted
     /\ d.tasks[t].current_streak > 0
     /\ d.tasks[t].last_checkin_date # None
     /\ d.tasks[t].last_checkin_date # Some(date_today)}

First(S) == CHOOSE x \in S : \A y \in S : x <= y

RECURSIVE AtRiskLoop(_, _)
AtRiskLoop(d, habits) ==
  IF habits = {} THEN d
  ELSE LET habit == First(habits)
       IN IF _check_existing_at_risk(d, habit)
          THEN AtRiskLoop(d, habits \ {habit})
          ELSE AtRiskLoop(_create_notification(d,
                            AtRiskNotification(habit, d.tasks[habit].current_streak)),
                          habits \ {habit})

generate_at_risk_notifications(d) == AtRiskLoop(d, AtRiskHabits(d))

RECURSIVE ReminderLoop(_, _)
ReminderLoop(d, habits) ==
  IF habits = {} THEN d
  ELSE LET habit == First(habits)
           rest == habits \ {habit}
       IN IF d.tasks[habit].last_checkin_date = Some(date_today) THEN ReminderLoop(d, rest)
          ELSE IF d.tasks[habit].current_streak > 0 THEN ReminderLoop(d, rest)
          ELSE IF _check_existing_reminder(d, habit) THEN ReminderLoop(d, rest)
          ELSE ReminderLoop(_create_notification(d,
                              ReminderNotification(habit, d.tasks[habit].current_streak)),
                            rest)

generate_habit_reminders(d) == ReminderLoop(d, ActiveHabits(d))

check_daily_complete_any_done(d) ==
  LET today == date_today
      habits == ActiveHabits(d)
  IN IF ~(\E h \in habits : d.tasks[h].last_checkin_date = Some(today))
     THEN [db |-> d, raised |-> FALSE]
     ELSE LET existing == ScalarOneOrNone(DailyCompleteRows(d))
          IN IF existing = "raise" THEN [db |-> d, raised |-> TRUE]
             ELSE IF existing = "one" THEN [db |-> d, raised |-> FALSE]
             ELSE [db |-> _create_notification(d,
                      DailyCompleteNotification(Cardinality(habits), today)),
                   raised |-> FALSE]

\* [db, raised]: raised when _check_existing_daily_complete finds several rows
check_daily_complete(d) ==
  LET today == date_today
      habits == ActiveHabits(d)
  IN IF habits = {} THEN [db |-> d, raised |-> FALSE]
     ELSE IF ~(\A h \in habits : d.tasks[h].last_checkin_date = Some(today))
     THEN [db |-> d, raised |-> FALSE]
     ELSE LET existing == ScalarOneOrNone(DailyCompleteRows(d))
          IN IF existing = "raise" THEN [db |-> d, raised |-> TRUE]
             ELSE IF existing = "one" THEN [db |-> d, raised |-> FALSE]
             ELSE [db |-> _create_notification(d,
                      DailyCompleteNotification(Cardinality(habits), today)),
                   raised |-> FALSE]

-----------------------------------------------------------------------------
(* POST /tasks/{task_id}/checkin, the whole handler run without interleaving *)

\* the ids uuid4 can hand out
TaskIds == {1, 2}

\* raise HTTPException(status_code=404): nothing was added to the session
CheckinNotFound_after_insert(d, task_id, timezone_offset) ==
  [db |-> [d EXCEPT !.checkins =
             @ (+) SetToBag({CheckinRow(task_id, get_local_date(timezone_offset))})],
   status |-> 404, today |-> None, inserted |-> FALSE]

CheckinNotFound(d, task_id, timezone_offset) ==
  [db |-> d, status |-> 404, today |-> None, inserted |-> FALSE]

\* the awaited store calls of the notification checks that can raise
Faults == {"none", "achievement", "daily_complete"}

\* lines 244-255: the two checks in turn; an exception of the first skips the
\* second.  fault names the check whose store call raises (check_streak_achievement
\* makes none when the streak is no milestone); [db, raised]
NotifyAfterCheckin(committed, task_id, new_streak, fault) ==
  IF fault = "achievement" /\ new_streak \in ACHIEVEMENT_MILESTONES
  THEN [db |-> committed, raised |-> TRUE]
  ELSE LET achieved == check_streak_achievement(committed, task_id, new_streak)
       IN IF fault = "daily_complete"
          THEN [db |-> achieved, raised |-> TRUE]
          ELSE check_daily_complete(achieved)

checkin_task_rolls_back(d, task_id, timezone_offset, fault) ==
  IF ~HasTask(d, task_id)
  THEN CheckinNotFound(d, task_id, timezone_offset)
  ELSE
    LET task == d.tasks[task_id]
        today == get_local_date(timezone_offset)
        existing_checkin == ScalarOneOrNone(ExistingCheckins(d, task_id, today))
    IN IF existing_checkin = "raise"
       THEN [db |-> d, status |-> 500, today |-> Some(today), inserted |-> FALSE]
       ELSE IF existing_checkin = "one"
       THEN [db |-> d, status |-> 200, today |-> Some(today), inserted |-> FALSE]
       ELSE
         LET committed == CommitCheckin(d, task_id, task, today)
             new_streak == AssignedStreak(task, today).current_streak
             notified == NotifyAfterCheckin(committed, task_id, new_streak, fault)
         IN [db |-> IF notified.raised THEN d ELSE notified.db,
             status |-> IF notified.raised THEN 500 ELSE 200,
             today |-> Some(today), inserted |-> TRUE]

\* [db, status, today, inserted]; an exception that leaves the handler is the
\* response 500
checkin_task(d, task_id, timezone_offset, fault) ==
  IF ~HasTask(d, task_id)
  THEN CheckinNotFound(d, task_id, timezone_offset)
  ELSE
    LET task == d.tasks[task_id]
        today == get_local_date(timezone_offset)
        existing_checkin == ScalarOneOrNone(ExistingCheckins(d, task_id, today))
    IN IF existing_checkin = "raise"
       THEN [db |-> d, status |-> 500, today |-> Some(today), inserted |-> FALSE]
       ELSE IF existing_checkin = "one"
       THEN [db |-> d, status |-> 200, today |-> Some(today), inserted |-> FALSE]
       ELSE
         LET committed == CommitCheckin(d, task_id, task, today)
             new_streak == AssignedStreak(task, today).current_streak
             notified == NotifyAfterCheckin(committed, task_id, new_streak, fault)
         IN [db |-> notified.db,
             status |-> IF notified.raised THEN 500 ELSE 200,
             today |-> Some(today), inserted |-> TRUE]

\* what the last call was and what it answered; streak is the streak argument
\* of a direct check_streak_achievement call, created the number of
\* notifications a generator returned
Response(op, task_id, status, today, inserted) ==
  [op |-> op, task_id |-> task_id, status |-> status, today |-> today,
   inserted |-> inserted, streak |-> None, created |-> 0]

NoResponse == Response("none", 0, 0, None, FALSE)

\* the ghost record of a task: k distinct local dates checked in on so far, the
\* latest of them, and whether every call so far fell on the previous call's
\* date or on the day after it
FreshHist == [k |-> 0, last |-> None, clean |-> TRUE]
BrokenHist == [k |-> 0, last |-> None, clean |-> FALSE]

NextHist(h, today) ==
  IF ~h.clean THEN BrokenHist
  ELSE IF h.last = None THEN [k |-> 1, last |-> Some(today), clean |-> TRUE]
  ELSE IF h.last = Some(today) THEN h
  ELSE IF today = h.last[1] + 1 THEN [k |-> h.k + 1, last |-> Some(today), clean |-> TRUE]
  ELSE BrokenHist

Extend(f, k, v) == [x \in DOMAIN f \cup {k} |-> IF x = k THEN v ELSE f[x]]

CreateTask(is_habit) ==
  /\ allocated # TaskIds
  /\ LET id == First(TaskIds \ allocated)
     IN /\ db' = [db EXCEPT !.tasks = Extend(@, id, NewTask(is_habit))]
        /\ allocated' = allocated \cup {id}
        /\ hist' = Extend(hist, id, FreshHist)
        /\ resp' = Response("create_task", id, 201, None, FALSE)
  /\ UNCHANGED <<now, serverTz, sess, probe>>

Checkin(task_id, timezone_offset) ==
  /\ LET r == checkin_task(db, task_id, timezone_offset, "none")
     IN /\ db' = r.db
        /\ resp' = Response("checkin_task", task_id, r.status, r.today, r.inserted)
        /\ hist' = IF r.status = 200
                   THEN [hist EXCEPT ![task_id] = NextHist(@, r.today[1])]
                   ELSE hist
  /\ UNCHANGED <<allocated, now, serverTz, sess, probe>>

\* the same request served while a store call of the notification checks raises
CheckinFailing(task_id, timezone_offset, fault) ==
  /\ LET r == checkin_task(db, task_id, timezone_offset, fault)
     IN /\ db' = r.db
        /\ resp' = Response("checkin_task", task_id, r.status, r.today, r.inserted)
        /\ hist' = IF r.status = 200
                   THEN [hist EXCEPT ![task_id] = NextHist(@, r.today[1])]
                   ELSE hist
  /\ UNCHANGED <<allocated, now, serverTz, sess, probe>>

\* the wall clock moves on
Advance ==
  /\ now < MaxNow * Tick
  /\ now' = now + Tick
  /\ resp' = NoResponse
  /\ UNCHANGED <<db, allocated, serverTz, hist, sess, probe>>

\* service.check_daily_complete() called directly
CheckDailyComplete ==
  /\ LET r == check_daily_complete(db)
     IN /\ db' = r.db
        /\ resp' = [Response("check_daily_complete", 0, IF r.raised THEN 500 ELSE 200,
                             None, FALSE)
                      EXCEPT !.created = BagCardinality(r.db.notifs) - BagCardinality(db.notifs)]
  /\ UNCHANGED <<allocated, now, serverTz, hist, sess, probe>>

NoProbe == [last |-> None, streak |-> 0, today |-> 0, result |-> None]

Init ==
  /\ db = EmptyDb
  /\ allocated = {}
  /\ now = 0
  /\ serverTz \in Offsets
  /\ resp = NoResponse
  /\ hist = << >>
  /\ sess = << >>
  /\ probe = NoProbe

\* a check-in that would insert a row beyond MaxCheckins rows is left out
Next ==
  \/ \E is_habit \in BOOLEAN : CreateTask(is_habit)
  \/ \E t \in TaskIds, off \in Offsets :
       Checkin(t, off) /\ BagCardinality(db'.checkins) <= MaxCheckins
  \/ CheckDailyComplete
  \/ Advance

Spec == Init /\ [][Next]_vars

-----------------------------------------------------------------------------
(* The streak engine on its own: every input of the bounded domain *)

ProbeDates == 0..MaxDate

InitStreak ==
  /\ db = EmptyDb /\ allocated = {} /\ now = 0 /\ serverTz = 0
  /\ resp = NoResponse /\ hist = << >> /\ sess = << >>
  /\ probe \in [last : {None} \cup {Some(d) : d \in ProbeDates},
                streak : 0..MaxStreak, today : ProbeDates, result : {None}]

CallStreak ==
  /\ probe.result = None
  /\ probe' = [probe EXCEPT !.result =
                 Some(calculate_streak(probe.last, probe.streak, probe.today))]
  /\ UNCHANGED <<db, allocated, now, serverTz, resp, hist, sess>>

NextStreak == CallStreak

SpecStreak == InitStreak /\ [][NextStreak]_vars

-----------------------------------------------------------------------------
(* Check-in requests in flight together: each has its own session and yields  *)
(* at every await of checkin_task                                             *)

Sessions == {1, 2}

IdleSession ==
  [pc |-> "idle", task_id |-> 0, offset |-> 0, task |-> None, before |-> None,
   today |-> None,
   new_streak |-> 0, habits |-> 0, status |-> 0, inserted |-> FALSE, lost |-> FALSE,
   served |-> 0]

Done(s, status) == [s EXCEPT !.pc = "done", !.status = status]

\* result = await db.execute(select(TaskCard)...); 404 when there is no row
Begin(r, task_id, timezone_offset) ==
  /\ sess[r].pc = "idle"
  /\ sess' = [sess EXCEPT ![r] =
       IF ~HasTask(db, task_id)
       THEN Done([@ EXCEPT !.task_id = task_id, !.offset = timezone_offset], 404)
       ELSE [@ EXCEPT !.pc = "loaded", !.task_id = task_id,
                                !.offset = timezone_offset,
                                !.task = Some(db.tasks[task_id]),
                                !.before = Some(db.tasks[task_id])]]
  /\ UNCHANGED <<db, allocated, now, serverTz, resp, hist, probe>>

\* today = get_local_date(...); existing_checkin = await db.execute(...)
CheckExisting(r) ==
  /\ sess[r].pc = "loaded"
  /\ LET today == get_local_date(sess[r].offset)
         existing_checkin == ScalarOneOrNone(ExistingCheckins(db, sess[r].task_id, today))
         s == [sess[r] EXCEPT !.today = Some(today)]
     IN sess' = [sess EXCEPT ![r] =
          IF existing_checkin = "raise" THEN Done(s, 500)
          ELSE IF existing_checkin = "one" THEN Done(s, 200)
          ELSE [s EXCEPT !.pc = "adding"]]
  /\ UNCHANGED <<db, allocated, now, serverTz, resp, hist, probe>>

\* db.add(checkin_record) ... await db.commit(); await db.refresh(task)
Commit(r) ==
  /\ sess[r].pc = "adding"
  /\ LET s == sess[r]
         committed == CommitCheckin(db, s.task_id, s.task[1], s.today[1])
     IN /\ db' = committed
        /\ sess' = [sess EXCEPT ![r] =
             [s EXCEPT !.pc = "committed",
                       !.new_streak = AssignedStreak(s.task[1], s.today[1]).current_streak,
                       !.task = Some(committed.tasks[s.task_id]),
                       !.inserted = TRUE,
                       !.lost = (Recorded(db, s.task_id, s.today[1]) >= 1)]]
  /\ UNCHANGED <<allocated, now, serverTz, resp, hist, probe>>

\* check_streak_achievement up to its await of _check_existing_achievement
AchievementCheck(r) ==
  /\ sess[r].pc = "committed"
  /\ LET s == sess[r]
     IN sess' = [sess EXCEPT ![r] =
          IF s.new_streak \notin ACHIEVEMENT_MILESTONES THEN [s EXCEPT !.pc = "achieved"]
          ELSE IF _check_existing_achievement(db, s.task_id, s.new_streak)
          THEN [s EXCEPT !.pc = "achieved"]
          ELSE [s EXCEPT !.pc = "achieving"]]
  /\ UNCHANGED <<db, allocated, now, serverTz, resp, hist, probe>>

\* check_streak_achievement: await self._create_notification(...)
AchievementCreate(r) ==
  /\ sess[r].pc = "achieving"
  /\ db' = _create_notification(db,
             AchievementNotification(sess[r].task_id, sess[r].new_streak))
  /\ sess' = [sess EXCEPT ![r].pc = "achieved"]
  /\ UNCHANGED <<allocated, now, serverTz, resp, hist, probe>>

\* check_daily_complete: today = date.today(); the habits query; all_completed
DailyQuery(r) ==
  /\ sess[r].pc = "achieved"
  /\ LET today == date_today
         habits == ActiveHabits(db)
     IN sess' = [sess EXCEPT ![r] =
          IF habits = {} THEN Done(@, 200)
          ELSE IF ~(\A h \in habits : db.tasks[h].last_checkin_date = Some(today))
          THEN Done(@, 200)
          ELSE [@ EXCEPT !.pc = "all_completed", !.habits = Cardinality(habits),
                         !.today = Some(today)]]
  /\ UNCHANGED <<db, allocated, now, serverTz, resp, hist, probe>>

\* check_daily_complete: existing = await self._check_existing_daily_complete(today)
DailyExisting(r) ==
  /\ sess[r].pc = "all_completed"
  /\ LET existing == ScalarOneOrNone(DailyCompleteRows(db))
     IN sess' = [sess EXCEPT ![r] =
          IF existing = "raise" THEN Done(@, 500)
          ELSE IF existing = "one" THEN Done(@, 200)
          ELSE [@ EXCEPT !.pc = "completing"]]
  /\ UNCHANGED <<db, allocated, now, serverTz, resp, hist, probe>>

\* check_daily_complete: await self._create_notification(...); return task
DailyCreate(r) ==
  /\ sess[r].pc = "completing"
  /\ db' = _create_notification(db,
             DailyCompleteNotification(sess[r].habits, sess[r].today[1]))
  /\ sess' = [sess EXCEPT ![r] = Done(@, 200)]
  /\ UNCHANGED <<allocated, now, serverTz, resp, hist, probe>>

RECURSIVE SumServed(_)
SumServed(S) ==
  IF S = {} THEN 0
  ELSE LET r == CHOOSE x \in S : TRUE IN sess[r].served + SumServed(S \ {r})

\* the responses sent so far
Served == SumServed(Sessions)

\* the response is sent and the session closed; the next request gets a new one
Finish(r) ==
  /\ sess[r].pc = "done"
  /\ Served < MaxServed
  /\ sess' = [sess EXCEPT ![r] = [IdleSession EXCEPT !.served = sess[r].served + 1]]
  /\ UNCHANGED <<db, allocated, now, serverTz, resp, hist, probe>>

\* A store the API reaches in six days: habit 1 checked in on each of the six
\* days before day 0, habit 2 just created.
SixDayStore ==
  [tasks |-> (1 :> [NewTask(TRUE) EXCEPT !.current_streak = 6, !.longest_streak = 6,
                                         !.last_checkin_date = Some(0 - 1)])
             @@ (2 :> NewTask(TRUE)),
   checkins |-> SetToBag({CheckinRecord(1, 0 - k, (0 - k) * MinutesPerDay) : k \in 1..6}),
   notifs |-> EmptyBag, settings |-> << >>]

InitRace ==
  /\ db = SixDayStore
  /\ allocated = {1, 2}
  /\ now \in {0, Tick}
  /\ serverTz \in Offsets
  /\ resp = NoResponse
  /\ hist = << >>
  /\ sess = [r \in Sessions |-> IdleSession]
  /\ probe = NoProbe

NextRace ==
  \/ \E r \in Sessions, t \in TaskIds, off \in Offsets : Begin(r, t, off)
  \/ \E r \in Sessions : CheckExisting(r)
  \/ \E r \in Sessions : Commit(r)
  \/ \E r \in Sessions : AchievementCheck(r)
  \/ \E r \in Sessions : AchievementCreate(r)
  \/ \E r \in Sessions : DailyQuery(r)
  \/ \E r \in Sessions : DailyExisting(r)
  \/ \E r \in Sessions : DailyCreate(r)
  \/ \E r \in Sessions : Finish(r)

SpecRace == InitRace /\ [][NextRace]_vars

-----------------------------------------------------------------------------
(* The notification generators over a store populated as the property tests  *)
(* and the seeder populate it                                                *)

SeedStreaks == {0, 3}
StreakArgs == {7, 8, 14}

ServiceResponse(op, habit_id, streak, created) ==
  [Response(op, habit_id, 200, None, FALSE) EXCEPT !.streak = streak, !.created = created]

\* session.add(TaskCard(is_habit=True, current_streak=s, longest_streak=s,
\* last_checkin_date=today if checked_in_today else yesterday))
SeedHabit(current_streak, checked_in_today) ==
  /\ allocated # TaskIds
  /\ LET id == First(TaskIds \ allocated)
         today == date_today
         yesterday == today - 1
         habit == [NewTask(TRUE) EXCEPT
                     !.current_streak = current_streak,
                     !.longest_streak = current_streak,
                     !.last_checkin_date =
                        Some(IF checked_in_today THEN today ELSE yesterday)]
     IN /\ db' = [db EXCEPT !.tasks = Extend(@, id, habit)]
        /\ allocated' = allocated \cup {id}
        /\ hist' = Extend(hist, id, BrokenHist)
        /\ resp' = Response("seed", id, 0, None, FALSE)
  /\ UNCHANGED <<now, serverTz, sess, probe>>

\* DELETE /tasks/{task_id} without hard_delete
SoftDelete(task_id) ==
  /\ IF ~HasTask(db, task_id)
     THEN /\ resp' = Response("delete_task", task_id, 404, None, FALSE)
          /\ UNCHANGED db
     ELSE /\ db' = [db EXCEPT !.tasks[task_id].is_deleted = TRUE]
          /\ resp' = Response("delete_task", task_id, 204, None, FALSE)
  /\ UNCHANGED <<allocated, now, serverTz, hist, sess, probe>>

NotifCount(d) == BagCardinality(d.notifs)

\* service.check_streak_achievement(habit_id, streak, habit_title) called directly
CheckStreakAchievement(habit_id, streak) ==
  /\ db' = check_streak_achievement(db, habit_id, streak)
  /\ resp' = ServiceResponse("check_streak_achievement", habit_id, Some(streak),
                             NotifCount(db') - NotifCount(db))
  /\ UNCHANGED <<allocated, now, serverTz, hist, sess, probe>>

\* POST /notifications/generate-at-risk
GenerateAtRisk ==
  /\ db' = generate_at_risk_notifications(db)
  /\ resp' = ServiceResponse("generate_at_risk", 0, None, NotifCount(db') - NotifCount(db))
  /\ UNCHANGED <<allocated, now, serverTz, hist, sess, probe>>

\* POST /notifications/generate-reminders
GenerateReminders ==
  /\ db' = generate_habit_reminders(db)
  /\ resp' = ServiceResponse("generate_reminders", 0, None, NotifCount(db') - NotifCount(db))
  /\ UNCHANGED <<allocated, now, serverTz, hist, sess, probe>>

AdvanceGen ==
  /\ now < (MaxGenNow + 1) * Tick
  /\ now' = now + Tick
  /\ resp' = NoResponse
  /\ UNCHANGED <<db, allocated, serverTz, hist, sess, probe>>

\* PUT /tasks/{task_id} with is_habit given
UpdateTask(task_id, is_habit) ==
  /\ IF ~HasTask(db, task_id)
     THEN /\ resp' = Response("update_task", task_id, 404, None, FALSE)
          /\ UNCHANGED db
     ELSE /\ db' = [db EXCEPT !.tasks[task_id].is_habit = is_habit]
          /\ resp' = Response("update_task", task_id, 200, None, FALSE)
  /\ UNCHANGED <<allocated, now, serverTz, hist, sess, probe>>

\* the rows POST /notifications has added
Posted(d) ==
  BagSum(d.notifs, {n \in BagToSet(d.notifs) : n.current_streak = None /\ n.habit_id # None})

\* POST /notifications with type habit_reminder and data {habit_id, at_risk}
PostNotification(habit_id, at_risk) ==
  /\ Posted(db) < MaxPosted
  /\ db' = _create_notification(db,
             Notification("habit_reminder", Some(habit_id), None, at_risk, None, None, None))
  /\ resp' = ServiceResponse("create_notification", habit_id, None, 1)
  /\ UNCHANGED <<allocated, now, serverTz, hist, sess, probe>>

NextGen ==
  \/ \E is_habit \in BOOLEAN : CreateTask(is_habit)
  \/ \E s \in SeedStreaks, c \in BOOLEAN : SeedHabit(s, c)
  \/ \E t \in TaskIds, a \in BOOLEAN : PostNotification(t, a)
  \/ \E t \in TaskIds : SoftDelete(t)
  \/ GenerateAtRisk
  \/ GenerateReminders
  \/ AdvanceGen

\* an empty store at noon UTC
InitGen ==
  /\ db = EmptyDb
  /\ allocated = {}
  /\ now = Tick
  /\ serverTz \in Offsets
  /\ resp = NoResponse
  /\ hist = << >>
  /\ sess = << >>
  /\ probe = NoProbe

SpecGen == InitGen /\ [][NextGen]_vars

-----------------------------------------------------------------------------
(* The generators invoked again and again over a store whose tasks stay as     *)
(* they are                                                                    *)

\* habit 1 was created and never checked in, habit 2 was checked in on each of
\* the three days before today
PendingStore(today) ==
  [tasks |-> (1 :> NewTask(TRUE))
             @@ (2 :> [NewTask(TRUE) EXCEPT !.current_streak = 3, !.longest_streak = 3,
                                            !.last_checkin_date = Some(today - 1)]),
   checkins |-> SetToBag({CheckinRecord(2, today - k, now - k * MinutesPerDay) : k \in 1..3}),
   notifs |-> EmptyBag, settings |-> << >>]

\* both habits were created and checked in on the date that is today's; the
\* check-ins resolved it while the server's date was another, so that
\* check_daily_complete made nothing
CompletedStore(today) ==
  [tasks |-> [t \in TaskIds |->
                [NewTask(TRUE) EXCEPT !.current_streak = 1, !.longest_streak = 1,
                                      !.last_checkin_date = Some(today)]],
   checkins |-> SetToBag({CheckinRecord(t, today, now - Tick) : t \in TaskIds}),
   notifs |-> EmptyBag, settings |-> << >>]

InitDay ==
  /\ now = Tick
  /\ serverTz \in Offsets
  /\ db \in {PendingStore(date_today), CompletedStore(date_today)}
  /\ allocated = TaskIds
  /\ resp = NoResponse
  /\ hist = [t \in TaskIds |-> BrokenHist]
  /\ sess = << >>
  /\ probe = NoProbe

NextDay ==
  \/ GenerateReminders
  \/ GenerateAtRisk
  \/ CheckDailyComplete
  \/ AdvanceGen

SpecDay == InitDay /\ [][NextDay]_vars

\* A store the API reaches in six days: one habit, checked in on each of them
OneHabitStore ==
  [SixDayStore EXCEPT !.tasks = [t \in {1} |-> SixDayStore.tasks[t]]]

InitAch ==
  /\ db = OneHabitStore
  /\ allocated = {1}
  /\ now = 0
  /\ serverTz \in Offsets
  /\ resp = NoResponse
  /\ hist = [t \in {1} |-> BrokenHist]
  /\ sess = << >>
  /\ probe = NoProbe

\* a day passes
AdvanceDay ==
  /\ now < MaxAchDays * MinutesPerDay
  /\ now' = now + MinutesPerDay
  /\ resp' = NoResponse
  /\ UNCHANGED <<db, allocated, serverTz, hist, sess, probe>>

\* POST /notifications with type daily_complete
PostDailyComplete ==
  /\ DailyCompleteRows(db) < MaxDaily
  /\ db' = _create_notification(db, DailyCompleteNotification(0, date_today))
  /\ resp' = ServiceResponse("create_notification", 0, None, 1)
  /\ UNCHANGED <<allocated, now, serverTz, hist, sess, probe>>

NextFault ==
  \/ \E t \in TaskIds, off \in Offsets, f \in Faults \ {"none"} : CheckinFailing(t, off, f)
  \/ \E t \in TaskIds, off \in Offsets : Checkin(t, off)
  \/ PostDailyComplete
  \/ AdvanceDay

\* check-ins of one habit while the store fails now and then
SpecFault == InitAch /\ [][NextFault]_vars

NextAch ==
  \/ \E t \in TaskIds, off \in Offsets : Checkin(t, off)
  \/ \E t \in TaskIds, s \in StreakArgs : CheckStreakAchievement(t, s)
  \/ AdvanceDay

SpecAch == InitAch /\ [][NextAch]_vars

-----------------------------------------------------------------------------
(* Properties of the streak engine *)

\* C1: calculate_streak returns 1 when last is absent, the streak unchanged when
\* last = today, streak + 1 when today - last is exactly one day, and 1 in every
\* other case (a gap of two or more days, or last later than today).
C1_StreakTable ==
  probe.result # None =>
    LET r == probe.result[1]
    IN /\ (probe.last = None) => r = 1
       /\ (probe.last = Some(probe.today)) => r = probe.streak
       /\ (probe.last # None /\ probe.today - probe.last[1] = 1)
            => r = probe.streak + 1
       /\ (probe.last # None /\ probe.today - probe.last[1] >= 2) => r = 1
       /\ (probe.last # None /\ probe.last[1] > probe.today) => r = 1

\* a streak of 3 reset by a last check-in that lies after today
C1_Witness ==
  /\ probe.result = Some(1)
  /\ probe.last # None /\ probe.last[1] > probe.today
  /\ probe.streak = 3

-----------------------------------------------------------------------------
(* Properties of check-in, one request at a time *)

Copies(task_id, day) == Recorded(db, task_id, day)

\* C2: a check-in for a task that already has a record for the local date the
\* request resolves (a second call on the same local day) succeeds and leaves the
\* store as the first call left it: no second record, streak columns unchanged.
C2_SameDayIdempotent ==
  [][(/\ resp'.op = "checkin_task"
      /\ resp'.today # None
      /\ Copies(resp'.task_id, resp'.today[1]) >= 1)
     => (resp'.status = 200 /\ ~resp'.inserted /\ db' = db)]_vars

\* a second call on the day of the first one has answered
C2_Witness ==
  /\ resp.op = "checkin_task" /\ resp.status = 200 /\ ~resp.inserted
  /\ resp.today # None /\ Copies(resp.task_id, resp.today[1]) = 1
  /\ db.tasks[resp.task_id].current_streak = 2

\* C3: every task has longest_streak >= current_streak.
C3_LongestAtLeastCurrent ==
  \A t \in DOMAIN db.tasks : db.tasks[t].longest_streak >= db.tasks[t].current_streak

\* a streak that reached 2 and was reset
C3_Witness ==
  \E t \in DOMAIN db.tasks :
    db.tasks[t].longest_streak = 2 /\ db.tasks[t].current_streak = 1

\* C6: a task whose check-in calls all fell on the previous call's local date or
\* on the day after it, k distinct dates in all, has current_streak = k,
\* longest_streak = k and last_checkin_date = the last of those dates.
C6_ConsecutiveDays ==
  \A t \in DOMAIN db.tasks :
    (hist[t].clean /\ hist[t].k >= 1) =>
      /\ db.tasks[t].current_streak = hist[t].k
      /\ db.tasks[t].longest_streak = hist[t].k
      /\ db.tasks[t].last_checkin_date = hist[t].last

\* three consecutive days, the last call being a repeat on the third day
C6_Witness ==
  /\ resp.op = "checkin_task" /\ resp.status = 200 /\ ~resp.inserted
  /\ HasTask(db, resp.task_id)
  /\ hist[resp.task_id].clean /\ hist[resp.task_id].k = 3

\* C7: a check-in on a task id that has no row answers 404 and changes no row of
\* any table.
C7_NotFoundChangesNothing ==
  [][(resp'.op = "checkin_task" /\ resp'.task_id \notin DOMAIN db.tasks)
     => (resp'.status = 404 /\ db' = db)]_vars

\* a 404 answered while another task has its check-in on record
C7_Witness ==
  /\ resp.op = "checkin_task" /\ resp.status = 404
  /\ resp.task_id \notin DOMAIN db.tasks
  /\ db.checkins # EmptyBag

-----------------------------------------------------------------------------
(* Properties of check-ins in flight together *)

\* C4: at most one CheckinRecord exists for each (task, calendar date), also when
\* check-ins for one task interleave between the existence check and the commit.
C4_OneRecordPerTaskAndDate ==
  \A row \in BagToSet(db.checkins) : Recorded(db, row.task_id, row.checkin_date) <= 1

\* C5: a request that passed the existence check and finds, when it commits, that
\* another request has recorded the same (task, date) completes as a no-op
\* success: status 200 and nothing inserted by it.
C5_RaceLoserIsNoOp ==
  \A r \in DOMAIN sess :
    (sess[r].pc = "done" /\ sess[r].lost) => (sess[r].status = 200 /\ ~sess[r].inserted)

-----------------------------------------------------------------------------
(* Properties of the notification generators *)

\* the achievement rows of a store carrying (habit, milestone)
AchievementCount(d, habit_id, milestone) ==
  BagSum(d.notifs, {n \in BagToSet(d.notifs) :
                      /\ n.type = "achievement"
                      /\ n.habit_id = <<habit_id>> /\ n.milestone = <<milestone>>})

AchievementSub(d) ==
  [n \in {x \in BagToSet(d.notifs) : x.type = "achievement"} |-> CopiesIn(n, d.notifs)]

\* C8: for every habit and milestone at most one achievement notification with
\* that (habit, milestone) exists, on whatever days check_streak_achievement is
\* invoked; an invocation with a milestone streak creates the notification when
\* none exists and creates nothing when one does.
C8_AchievementOnce ==
  /\ [](\A h \in TaskIds, m \in {7, 14, 30, 60, 100} : AchievementCount(db, h, m) <= 1)
  /\ [][(resp'.op = "check_streak_achievement" /\ resp'.streak[1] \in {7, 14, 30, 60, 100})
        => LET h == resp'.task_id
               m == resp'.streak[1]
           IN IF AchievementCount(db, h, m) = 0
              THEN /\ AchievementCount(db', h, m) = 1
                   /\ resp'.created = 1
                   /\ BagCardinality(db'.notifs) = BagCardinality(db.notifs) + 1
              ELSE db' = db /\ resp'.created = 0]_vars

\* an invocation with streak 7 that created nothing, the notification being of an
\* earlier day
C8_Witness ==
  /\ resp.op = "check_streak_achievement" /\ resp.streak = <<7>> /\ resp.created = 0
  /\ \E n \in BagToSet(db.notifs) :
       /\ n.type = "achievement" /\ n.habit_id = <<resp.task_id>> /\ n.milestone = <<7>>
       /\ n.created_at \div MinutesPerDay < now \div MinutesPerDay

\* C9: check_streak_achievement with a streak outside {7, 14, 30, 60, 100}
\* leaves the store unchanged, and a check-in whose new streak is outside the
\* set adds no achievement notification.
C9_NonMilestoneCreatesNothing ==
  [][/\ (resp'.op = "check_streak_achievement"
           /\ resp'.streak[1] \notin {7, 14, 30, 60, 100})
        => (db' = db /\ resp'.created = 0)
     /\ (resp'.op = "checkin_task" /\ resp'.inserted
           /\ db'.tasks[resp'.task_id].current_streak \notin {7, 14, 30, 60, 100})
        => AchievementSub(db') = AchievementSub(db)]_vars

\* streak 8 passed in for a habit that holds the achievement of 7
C9_Witness ==
  /\ resp.op = "check_streak_achievement" /\ resp.streak = <<8>>
  /\ AchievementCount(db, resp.task_id, 7) = 1
  /\ db.tasks[1].current_streak = 8

\* C10: generate_at_risk_notifications creates exactly one habit_reminder with
\* at_risk = true for each active habit with current_streak > 0 whose
\* last_checkin_date is not today and that has no at-risk notification created
\* in the current UTC day, and nothing else: none for a habit with streak 0 and
\* none for a habit checked in today.
C10_AtRiskExact ==
  [][(resp'.op = "generate_at_risk") =>
       LET today == (now - serverTz) \div MinutesPerDay
           warned(h) ==
             \E n \in BagToSet(db.notifs) :
               /\ n.type = "habit_reminder" /\ n.at_risk /\ n.habit_id = <<h>>
               /\ n.created_at \div MinutesPerDay = now \div MinutesPerDay
           due == {h \in DOMAIN db.tasks :
                     /\ db.tasks[h].is_habit /\ ~db.tasks[h].is_deleted
                     /\ db.tasks[h].current_streak > 0
                     /\ db.tasks[h].last_checkin_date # <<today>>
                     /\ ~warned(h)}
           made == {[type |-> "habit_reminder", habit_id |-> <<h>>,
                     current_streak |-> <<db.tasks[h].current_streak>>,
                     at_risk |-> TRUE, milestone |-> << >>, completed_count |-> << >>,
                     date |-> << >>, is_read |-> FALSE, created_at |-> now] : h \in due}
       IN /\ db'.notifs = db.notifs (+) SetToBag(made)
          /\ db'.tasks = db.tasks /\ db'.checkins = db.checkins
          /\ resp'.created = Cardinality(due)]_vars

\* one call warned about one habit and passed over a habit with streak 0 last
\* checked in yesterday
C10_Witness ==
  /\ resp.op = "generate_at_risk" /\ resp.created = 1
  /\ \E h \in DOMAIN db.tasks :
       /\ db.tasks[h].current_streak = 0
       /\ db.tasks[h].is_habit /\ ~db.tasks[h].is_deleted
       /\ db.tasks[h].last_checkin_date = <<((now - serverTz) \div MinutesPerDay) - 1>>
  /\ \E h \in DOMAIN db.tasks, n \in BagToSet(db.notifs) :
       /\ db.tasks[h].current_streak = 3
       /\ n.at_risk /\ n.habit_id = <<h>> /\ n.created_at = now

\* C11: generate_habit_reminders creates exactly one habit_reminder without the
\* at-risk marker for each active habit (is_habit, not deleted) that is not
\* checked in today, has current_streak = 0 and has no non-at-risk reminder
\* created in the current UTC day, and nothing else; an at-risk notification of
\* the same habit and day does not count as a reminder, and deleted or non-habit
\* tasks get none.
C11_RemindersExact ==
  [][(resp'.op = "generate_reminders") =>
       LET today == (now - serverTz) \div MinutesPerDay
           reminded(h) ==
             \E n \in BagToSet(db.notifs) :
               /\ n.type = "habit_reminder" /\ ~n.at_risk /\ n.habit_id = <<h>>
               /\ n.created_at \div MinutesPerDay = now \div MinutesPerDay
           due == {h \in DOMAIN db.tasks :
                     /\ db.tasks[h].is_habit /\ ~db.tasks[h].is_deleted
                     /\ db.tasks[h].current_streak = 0
                     /\ db.tasks[h].last_checkin_date # <<today>>
                     /\ ~reminded(h)}
           made == {[type |-> "habit_reminder", habit_id |-> <<h>>,
                     current_streak |-> <<0>>,
                     at_risk |-> FALSE, milestone |-> << >>, completed_count |-> << >>,
                     date |-> << >>, is_read |-> FALSE, created_at |-> now] : h \in due}
       IN /\ db'.notifs = db.notifs (+) SetToBag(made)
          /\ db'.tasks = db.tasks /\ db'.checkins = db.checkins
          /\ resp'.created = Cardinality(due)]_vars

\* one call reminded of a habit that holds an at-risk notification of the same
\* UTC day and passed over a deleted or non-habit task with streak 0
C11_Witness ==
  /\ resp.op = "generate_reminders" /\ resp.created = 1
  /\ \E h \in DOMAIN db.tasks, a, n \in BagToSet(db.notifs) :
       /\ a.type = "habit_reminder" /\ a.at_risk /\ a.habit_id = <<h>>
       /\ a.created_at \div MinutesPerDay = now \div MinutesPerDay
       /\ n.type = "habit_reminder" /\ ~n.at_risk /\ n.habit_id = <<h>>
       /\ n.created_at = now /\ n.current_streak = <<0>>
  /\ \E t \in DOMAIN db.tasks :
       /\ db.tasks[t].is_deleted \/ ~db.tasks[t].is_habit
       /\ db.tasks[t].current_streak = 0
       /\ db.tasks[t].last_checkin_date # <<(now - serverTz) \div MinutesPerDay>>
       /\ \A n \in BagToSet(db.notifs) : n.habit_id # <<t>>

-----------------------------------------------------------------------------
(* Properties of the daily-complete check *)

\* the daily_complete rows of a store
DailyCompleteCount(d) ==
  BagSum(d.notifs, {n \in BagToSet(d.notifs) : n.type = "daily_complete"})

\* C12: a daily_complete notification is created, by a check-in or by a direct
\* call of check_daily_complete, only when there is at least one active habit and
\* every active habit has last_checkin_date = today (the server's date); a direct
\* call made with no active habit, or with an active habit not checked in today,
\* changes nothing.
C12_DailyCompleteOnlyWhenAllDone ==
  [][LET today == (now - serverTz) \div MinutesPerDay
         active == {h \in DOMAIN db'.tasks :
                      db'.tasks[h].is_habit /\ ~db'.tasks[h].is_deleted}
         all_done == /\ active # {}
                     /\ \A h \in active : db'.tasks[h].last_checkin_date = <<today>>
     IN /\ (DailyCompleteCount(db') > DailyCompleteCount(db)) => all_done
        /\ (resp'.op = "check_daily_complete" /\ ~all_done)
             => (db' = db /\ resp'.created = 0)]_vars

\* yesterday every habit was done and the notification made; a second habit was
\* added since, and today's check-in of the first habit has made none
C12_Witness ==
  LET today == (now - serverTz) \div MinutesPerDay
  IN /\ resp.op = "checkin_task" /\ resp.inserted /\ resp.today = <<today>>
     /\ \E n \in BagToSet(db.notifs) : n.type = "daily_complete" /\ n.date = <<today - 1>>
     /\ \A n \in BagToSet(db.notifs) : n.type = "daily_complete" => n.date # <<today>>
     /\ \E h \in DOMAIN db.tasks :
          /\ db.tasks[h].is_habit /\ ~db.tasks[h].is_deleted
          /\ db.tasks[h].last_checkin_date = << >>
     /\ db.tasks[resp.task_id].is_habit
     /\ db.tasks[resp.task_id].last_checkin_date = <<today>>

-----------------------------------------------------------------------------
(* Properties of repeated generator invocations *)

\* the server's calendar date at the instant a notification was created
CreatedOn(n) == (n.created_at - serverTz) \div MinutesPerDay

\* C13: generate_habit_reminders, generate_at_risk_notifications and
\* check_daily_complete are idempotent within one day: an invocation that
\* repeats the previous one changes nothing and returns nothing, and after any
\* number of invocations, the tasks staying as they are, at most one
\* notification exists per (habit, day, sub-kind) and at most one daily_complete
\* per day.
C13_GeneratorsIdempotentPerDay ==
  /\ [](\A m, n \in BagToSet(db.notifs) :
          /\ CopiesIn(n, db.notifs) = 1
          /\ (/\ m.type = n.type /\ m.habit_id = n.habit_id /\ m.at_risk = n.at_risk
              /\ CreatedOn(m) = CreatedOn(n)) => m = n)
  /\ [][(/\ resp'.op = resp.op
         /\ resp'.op \in {"generate_reminders", "generate_at_risk", "check_daily_complete"})
        => (db' = db /\ resp'.created = 0)]_vars

-----------------------------------------------------------------------------
(* Properties of a check-in whose notification checks fail *)

\* C14: when the achievement check or the daily-complete check raises after a
\* check-in has committed, the check-in stays in the store: the new
\* CheckinRecord, and current_streak, longest_streak and last_checkin_date as
\* the check-in computed them.
C14_FailedCheckKeepsCheckin ==
  [][(resp'.op = "checkin_task" /\ resp'.inserted /\ resp'.status = 500) =>
       LET t == resp'.task_id
           today == resp'.today[1]
           old == db.tasks[t]
           streak == IF old.last_checkin_date = <<today - 1>>
                     THEN old.current_streak + 1 ELSE 1
       IN /\ Recorded(db', t, today)
               = Recorded(db, t, today) + 1
          /\ db'.tasks[t].current_streak = streak
          /\ db'.tasks[t].last_checkin_date = <<today>>
          /\ db'.tasks[t].longest_streak =
               IF streak > old.longest_streak THEN streak ELSE old.longest_streak]_vars

\* the seventh day's check-in was answered 500 and no achievement was made: the
\* achievement check failed, and the streak of 7 is stored
C14_Witness ==
  /\ resp.op = "checkin_task" /\ resp.inserted /\ resp.status = 500
  /\ db.tasks[resp.task_id].current_streak = 7
  /\ db.tasks[resp.task_id].longest_streak = 7
  /\ Recorded(db, resp.task_id, resp.today[1]) = 1
  /\ \A n \in BagToSet(db.notifs) : n.type # "achievement"

\* C15: when the achievement check or the daily-complete check raises after a
\* successful check-in, the caller still gets the updated task as a success: a
\* check-in that inserted its record answers 200.
C15_FailedCheckStillSucceeds ==
  [][(resp'.op = "checkin_task" /\ resp'.inserted) => resp'.status = 200]_vars

-----------------------------------------------------------------------------
(* Properties of the order of a check-in's steps *)

\* C16: whenever a check-in request starts its achievement check or runs the
\* habits query of its daily-complete check, its own commit is already in the
\* store: the CheckinRecord of (task, today) exists, the task's row carries a
\* last_checkin_date that has a CheckinRecord, and the streak passed to the
\* achievement check is the one computed for this check-in, not the one loaded.
C16_CommitBeforeNotificationReads ==
  [][\A r \in Sessions :
       (sess[r].pc \in {"committed", "achieved"} /\ sess'[r] # sess[r]) =>
         LET s == sess[r]
             row == db.tasks[s.task_id]
         IN /\ s.inserted
            /\ Recorded(db, s.task_id, s.today[1]) >= 1
            /\ row.last_checkin_date # << >>
            /\ Recorded(db, s.task_id, row.last_checkin_date[1]) >= 1
            /\ s.new_streak =
                 IF s.before[1].last_checkin_date = <<s.today[1] - 1>>
                 THEN s.before[1].current_streak + 1 ELSE 1]_vars

\* a request whose habits query found every habit checked in today, its own
\* among them
C16_Witness ==
  \E r \in Sessions :
    /\ sess[r].pc = "all_completed" /\ sess[r].inserted
    /\ db.tasks[sess[r].task_id].last_checkin_date # sess[r].before[1].last_checkin_date

\* the dates of the CheckinRecords a task has got since the initial store
NewDates(t) ==
  {x.checkin_date : x \in {y \in BagToSet(db.checkins) :
                             y.task_id = t /\ y \notin BagToSet(SixDayStore.checkins)}}

\* C17: when all check-ins that recorded for a task since the initial store
\* resolved one local date D, however they interleaved, the task's
\* current_streak, longest_streak and last_checkin_date are those one check-in
\* on D executed alone produces from the initial row.
C17_NoLostStreakUpdate ==
  \A t \in TaskIds : \A D \in NewDates(t) :
    (NewDates(t) = {D}) =>
      LET old == SixDayStore.tasks[t]
          streak == IF old.last_checkin_date = <<D - 1>>
                    THEN old.current_streak + 1 ELSE 1
      IN /\ db.tasks[t].current_streak = streak
         /\ db.tasks[t].last_checkin_date = <<D>>
         /\ db.tasks[t].longest_streak =
              IF streak > old.longest_streak THEN streak ELSE old.longest_streak

\* two requests both recorded day 0 for habit 1, and its streak is 7
C17_Witness ==
  /\ Recorded(db, 1, 0) = 2
  /\ NewDates(1) = {0}
  /\ db.tasks[1].current_streak = 7
  /\ \A r \in Sessions : sess[r].pc \in {"idle", "done"}

\* C18: in every interleaving of check-in requests and their achievement and
\* daily-complete checks, no two notifications exist for the same habit, day
\* and category or sub-kind, no two achievement notifications for the same
\* (habit, milestone), and no two daily_complete notifications for the same day
\* (the UTC day of creation, the window the checks look in).
C18_NoDuplicateNotifications ==
  \A m, n \in BagToSet(db.notifs) :
    /\ CopiesIn(n, db.notifs) = 1
    /\ (/\ m.type = n.type /\ m.habit_id = n.habit_id
        /\ m.at_risk = n.at_risk /\ m.milestone = n.milestone
        /\ \/ n.type = "achievement"
           \/ m.created_at \div MinutesPerDay = n.created_at \div MinutesPerDay)
       => m = n

-----------------------------------------------------------------------------
(* Properties of the streak columns against the history *)

\* the number of consecutive dates ending at day that each have a record of t
RECURSIVE RunLength(_, _)
RunLength(t, day) ==
  IF Recorded(db, t, day) = 0 THEN 0
  ELSE 1 + RunLength(t, day - 1)

\* C19: after any sequence of check-ins with any offsets, for every task that
\* has been checked in: a CheckinRecord exists for (task, last_checkin_date), no
\* record of the task has a later date, and current_streak is the number of
\* consecutive dates ending at last_checkin_date that each have a record.
C19_StreakMatchesHistory ==
  \A t \in DOMAIN db.tasks :
    LET row == db.tasks[t]
        dates == {x.checkin_date : x \in {y \in BagToSet(db.checkins) : y.task_id = t}}
    IN (dates # {} \/ row.last_checkin_date # << >>) =>
         /\ row.last_checkin_date # << >>
         /\ row.last_checkin_date[1] \in dates
         /\ \A d \in dates : d <= row.last_checkin_date[1]
         /\ row.current_streak = RunLength(t, row.last_checkin_date[1])

-----------------------------------------------------------------------------
(* The check-in history under the other endpoints *)

\* a delete that takes the task's check-in rows with it
delete_task_hard_cascades(d, task_id) ==
  [d EXCEPT !.tasks = [t \in DOMAIN @ \ {task_id} |-> @[t]],
            !.checkins = [x \in {y \in DOMAIN @ : y.task_id # task_id} |-> @[x]]]

\* await db.delete(task): TaskCard declares no relationship and
\* checkin_records.task_id no ON DELETE, so only the task row goes
delete_task_hard(d, task_id) ==
  [d EXCEPT !.tasks = [t \in DOMAIN @ \ {task_id} |-> @[t]]]

\* the rows of checkin_records that reference the task
RecordsOf(d, task_id) == {x \in BagToSet(d.checkins) : x.task_id = task_id}

\* DELETE /tasks/{task_id}?hard_delete=true; where the connection enforces
\* foreign keys the commit of a referenced task raises and nothing is deleted
HardDelete(task_id, fk_enforced) ==
  /\ IF ~HasTask(db, task_id)
     THEN /\ resp' = Response("delete_task", task_id, 404, None, FALSE)
          /\ UNCHANGED db
     ELSE IF fk_enforced /\ RecordsOf(db, task_id) # {}
     THEN /\ resp' = Response("delete_task", task_id, 500, None, FALSE)
          /\ UNCHANGED db
     ELSE /\ db' = delete_task_hard(db, task_id)
          /\ resp' = Response("delete_task", task_id, 204, None, FALSE)
  /\ UNCHANGED <<allocated, now, serverTz, hist, sess, probe>>

\* the endpoints that only select from checkin_records: GET
\* /tasks/{task_id}/checkins, GET /stats/overview and GET /settings/export
ReadEndpoints == {"get_task_checkins", "get_stats_overview", "export_data"}

ReadOnly(op) ==
  /\ resp' = Response(op, 0, 200, None, FALSE)
  /\ UNCHANGED <<db, allocated, now, serverTz, hist, sess, probe>>

InitFrame ==
  /\ db = OneHabitStore
  /\ allocated = {1}
  /\ now = Tick
  /\ serverTz \in Offsets
  /\ resp = NoResponse
  /\ hist = [t \in {1} |-> BrokenHist]
  /\ sess = << >>
  /\ probe = NoProbe

NextFrame ==
  \/ \E t \in TaskIds, off \in Offsets : Checkin(t, off)
  \/ \E t \in TaskIds, is_habit \in BOOLEAN : UpdateTask(t, is_habit)
  \/ \E t \in TaskIds : SoftDelete(t)
  \/ \E t \in TaskIds, fk_enforced \in BOOLEAN : HardDelete(t, fk_enforced)
  \/ GenerateAtRisk
  \/ GenerateReminders
  \/ \E op \in ReadEndpoints : ReadOnly(op)
  \/ AdvanceGen

SpecFrame == InitFrame /\ [][NextFrame]_vars

\* C20: no call removes a check-in row or changes its task, date or time, and
\* the only call that adds one is a check-in that inserts: it adds exactly the
\* row (its task, the local date it resolved, the instant of the call).
C20_CheckinRecordsImmutable ==
  [][ /\ \A x \in BagToSet(db.checkins) :
           CopiesIn(x, db'.checkins) >= CopiesIn(x, db.checkins)
      /\ db'.checkins # db.checkins =>
           /\ resp'.op = "checkin_task"
           /\ resp'.inserted
           /\ db'.checkins =
                db.checkins (+) SetToBag({CheckinRecord(resp'.task_id, resp'.today[1], now)})
    ]_vars

\* the habit was checked in, then deleted for good: its six earlier rows and the
\* new one are all there, and so is a notification about it
C20_Witness ==
  /\ ~HasTask(db, 1)
  /\ \A k \in 1..6 : CheckinRecord(1, 0 - k, (0 - k) * MinutesPerDay) \in BagToSet(db.checkins)
  /\ \E x \in RecordsOf(db, 1) : x.checkin_time >= Tick
  /\ NotifCount(db) > 0

-----------------------------------------------------------------------------
(* The request body of a check-in *)

\* what a client can send: no body, {} or {"timezone_offset": v} with v an
\* integer or null; a JSON object is the function of its keys
EmptyObject == << >>
Bodies ==
  {None, Some(EmptyObject)}
    \cup {Some([timezone_offset |-> v]) : v \in {None} \cup {Some(o) : o \in Offsets}}

\* CheckinRequest(**body): timezone_offset: Optional[int] = Field(default=0)
CheckinRequest(body) ==
  [timezone_offset |-> IF "timezone_offset" \in DOMAIN body
                       THEN body.timezone_offset
                       ELSE Some(0)]

\* timezone_offset = checkin_data.timezone_offset if checkin_data else 0
RequestOffset(checkin_data) ==
  IF checkin_data = None THEN Some(0)
  ELSE CheckinRequest(checkin_data[1]).timezone_offset

\* the handler from the request as it arrives; timedelta(minutes=None) raises
\* TypeError after the task was found and before anything is added
checkin_request(d, task_id, checkin_data) ==
  IF ~HasTask(d, task_id)
  THEN CheckinNotFound(d, task_id, 0)
  ELSE LET timezone_offset == RequestOffset(checkin_data)
       IN IF timezone_offset = None
          THEN [db |-> d, status |-> 500, today |-> None, inserted |-> FALSE]
          ELSE checkin_task(d, task_id, timezone_offset[1], "none")

CheckinBody(task_id, checkin_data) ==
  /\ LET r == checkin_request(db, task_id, checkin_data)
     IN /\ db' = r.db
        /\ resp' = Response("checkin_task", task_id, r.status, r.today, r.inserted)
        /\ hist' = IF r.status = 200
                   THEN [hist EXCEPT ![task_id] = NextHist(@, r.today[1])]
                   ELSE hist
  /\ UNCHANGED <<allocated, now, serverTz, sess, probe>>

NextBody ==
  \/ \E t \in TaskIds, b \in Bodies : CheckinBody(t, b)
  \/ Advance

SpecBody == InitAch /\ [][NextBody]_vars

\* the offset a request specifies, 0 when it specifies none
SpecifiedOffset(checkin_data) ==
  IF checkin_data = None THEN 0
  ELSE IF "timezone_offset" \notin DOMAIN checkin_data[1] THEN 0
  ELSE IF checkin_data[1].timezone_offset = None THEN 0
  ELSE checkin_data[1].timezone_offset[1]

\* C21: a check-in of an existing task, whatever its body, is answered 200 and
\* resolves the calendar date of (now minus the offset), the offset being 0 when
\* there is no body, no timezone_offset in it, or timezone_offset is null.
C21_LocalDateFromOffset ==
  [][\A t \in DOMAIN db.tasks, b \in Bodies :
       CheckinBody(t, b) =>
         /\ resp'.status = 200
         /\ resp'.today = Some(DateOf(now - SpecifiedOffset(b)))]_vars

-----------------------------------------------------------------------------
(* The notification inbox: create, read-state toggles, delete *)

\* select(func.count(Notification.id)) without the is_read filter
get_unread_count_total(d) == BagCardinality(d.notifs)

\* select(func.count(Notification.id)).where(Notification.is_read == False)
get_unread_count(d) ==
  BagSum(d.notifs, {n \in Rows(d) : n.is_read = FALSE})

\* the rows of B with the function f applied to each
BagImage(B, f) ==
  [e \in {f[n] : n \in BagToSet(B)} |->
     BagSum(B, {n \in BagToSet(B) : f[n] = e})]

SetRead(n) == [n EXCEPT !.is_read = TRUE]

\* notification.is_read = True on the row with the id
mark_as_read(d, n) ==
  [d EXCEPT !.notifs = (@ (-) SetToBag({n})) (+) SetToBag({SetRead(n)})]

\* update(Notification).where(Notification.is_read == False).values(is_read=True)
mark_all_as_read(d) ==
  [d EXCEPT !.notifs = BagImage(@, [n \in BagToSet(@) |-> SetRead(n)])]

\* await db.delete(notification)
delete_notification(d, n) == [d EXCEPT !.notifs = @ (-) SetToBag({n})]

InboxTypes == {"system", "achievement"}

\* POST /notifications without data
CreateNotification(type) ==
  /\ NotifCount(db) < MaxInbox
  /\ db' = _create_notification(db, Notification(type, None, None, FALSE, None, None, None))
  /\ resp' = ServiceResponse("create_notification", 0, None, 1)
  /\ UNCHANGED <<allocated, now, serverTz, hist, sess, probe>>

\* PATCH /notifications/{notification_id}/read for a stored row
MarkAsRead(n) ==
  /\ db' = mark_as_read(db, n)
  /\ resp' = ServiceResponse("mark_as_read", 0, None, 0)
  /\ UNCHANGED <<allocated, now, serverTz, hist, sess, probe>>

\* POST /notifications/read-all; the answer carries result.rowcount
MarkAllAsRead ==
  /\ db' = mark_all_as_read(db)
  /\ resp' = ServiceResponse("mark_all_as_read", 0, None, get_unread_count(db))
  /\ UNCHANGED <<allocated, now, serverTz, hist, sess, probe>>

\* DELETE /notifications/{notification_id} for a stored row
DeleteNotification(n) ==
  /\ db' = delete_notification(db, n)
  /\ resp' = ServiceResponse("delete_notification", 0, None, 0)
  /\ UNCHANGED <<allocated, now, serverTz, hist, sess, probe>>

\* PATCH .../read or DELETE with an id no row has: 404
NotificationNotFound(op) ==
  /\ resp' = Response(op, 0, 404, None, FALSE)
  /\ UNCHANGED <<db, allocated, now, serverTz, hist, sess, probe>>

\* GET /notifications/unread-count; the answer carries the count
GetUnreadCount ==
  /\ resp' = ServiceResponse("get_unread_count", 0, None, get_unread_count(db))
  /\ UNCHANGED <<db, allocated, now, serverTz, hist, sess, probe>>

NextInbox ==
  \/ \E type \in InboxTypes : CreateNotification(type)
  \/ \E n \in Rows(db) : MarkAsRead(n)
  \/ MarkAllAsRead
  \/ \E n \in Rows(db) : DeleteNotification(n)
  \/ \E op \in {"mark_as_read", "delete_notification"} : NotificationNotFound(op)
  \/ GetUnreadCount
  \/ AdvanceDay

SpecInbox == Init /\ [][NextInbox]_vars

\* the stored rows that are not read, counted from the rows that are
UnreadStored(d) ==
  BagCardinality(d.notifs) - BagSum(d.notifs, {n \in Rows(d) : n.is_read})

Unmark(n) == [n EXCEPT !.is_read = FALSE]

\* the stored rows with is_read left out of the comparison
OtherFields(d) == BagImage(d.notifs, [n \in BagToSet(d.notifs) |-> Unmark(n)])

\* C22: the unread count that is reported is the number of stored rows with
\* is_read = false; right after mark-all-as-read no stored row is unread; and
\* mark-as-read and mark-all-as-read change no field other than is_read and
\* neither add nor remove a row.
C22_UnreadCountExact ==
  [][ /\ resp'.op = "get_unread_count" => resp'.created = UnreadStored(db')
      /\ resp'.op = "mark_all_as_read" =>
           /\ UnreadStored(db') = 0
           /\ get_unread_count(db') = 0
           /\ OtherFields(db') = OtherFields(db)
      /\ (resp'.op = "mark_as_read" /\ resp'.status = 200) =>
           /\ OtherFields(db') = OtherFields(db)
           /\ UnreadStored(db') \in {UnreadStored(db), UnreadStored(db) - 1}
    ]_vars

\* three rows were created, two of them were marked read, and the count asked
\* for is 1
C22_Witness ==
  /\ resp.op = "get_unread_count"
  /\ resp.created = 1
  /\ NotifCount(db) = 3
  /\ \E n \in Rows(db) : n.is_read

-----------------------------------------------------------------------------
(* The settings store: PUT /settings, GET /settings, GET /settings/export *)

\* JSON values: a boolean, a number, a string or null; text is the JSON text of
\* a value that is not a string and the characters of one that is
JsonBool(text) == [kind |-> "bool", text |-> text]
JsonNumber(text) == [kind |-> "number", text |-> text]
JsonString(text) == [kind |-> "string", text |-> text]
JsonNull == [kind |-> "null", text |-> "null"]

\* the strings a client sends: a theme name, the empty string, and strings
\* whose characters are themselves JSON
StringTexts == {"dark", "", "123", "true", "null", "\"dark\""}

SettingValues ==
  {JsonBool("true"), JsonBool("false"), JsonNumber("123"), JsonNull}
    \cup {JsonString(t) : t \in StringTexts}

SettingKeys == {"theme", "language"}

\* json.dumps(value)
json_dumps(value) ==
  IF value.kind = "string" THEN "\"" \o value.text \o "\"" ELSE value.text

\* json.loads(text): Some(value), or None where it raises JSONDecodeError
json_loads(text) ==
  IF text \in {"true", "false"} THEN Some(JsonBool(text))
  ELSE IF text = "null" THEN Some(JsonNull)
  ELSE IF text = "123" THEN Some(JsonNumber(text))
  ELSE IF text = "\"dark\"" THEN Some(JsonString("dark"))
  ELSE None

\* serialized_value = json.dumps(value) if not isinstance(value, str) else value
Serialized(value) ==
  IF value.kind = "string" THEN value.text ELSE json_dumps(value)

\* for key, value in updates.items(): assign or add the row; commit
StoreSettings(d, updates) ==
  [d EXCEPT !.settings =
     [k \in DOMAIN @ \cup DOMAIN updates |->
        IF k \in DOMAIN updates THEN Serialized(updates[k]) ELSE @[k]]]

\* json.loads(setting.value) if setting.value else None, the text itself where
\* json.loads raises
LoadedSetting(text) ==
  IF text = "" THEN JsonNull
  ELSE IF json_loads(text) = None THEN JsonString(text)
  ELSE json_loads(text)[1]

Defaults ==
  [k \in {"notificationsEnabled", "theme"} |->
     IF k = "theme" THEN JsonString("system") ELSE JsonBool("true")]

get_settings(d) ==
  [k \in DOMAIN d.settings \cup DOMAIN Defaults |->
     IF k \in DOMAIN d.settings THEN LoadedSetting(d.settings[k]) ELSE Defaults[k]]

\* export_data: json.loads(setting.value) if setting.value else None for every
\* row, with nothing around it that catches JSONDecodeError
ExportRaises(d) ==
  \E k \in DOMAIN d.settings : d.settings[k] # "" /\ json_loads(d.settings[k]) = None

ExportedSettings(d) ==
  [k \in DOMAIN d.settings |->
     IF d.settings[k] = "" THEN JsonNull ELSE json_loads(d.settings[k])[1]]

\* the updates a client sends: one or more keys, a value for each
SettingUpdates ==
  UNION {[K -> SettingValues] : K \in (SUBSET SettingKeys) \ {{}}}

\* PUT /settings
UpdateSettings(updates) ==
  /\ db' = StoreSettings(db, updates)
  /\ resp' = Response("update_settings", 0, 200, None, FALSE)
  /\ UNCHANGED <<allocated, now, serverTz, hist, sess, probe>>

\* GET /settings
GetSettings ==
  /\ resp' = Response("get_settings", 0, 200, None, FALSE)
  /\ UNCHANGED <<db, allocated, now, serverTz, hist, sess, probe>>

\* GET /settings/export
ExportData ==
  /\ resp' = Response("export_data", 0, IF ExportRaises(db) THEN 500 ELSE 200, None, FALSE)
  /\ UNCHANGED <<db, allocated, now, serverTz, hist, sess, probe>>

NextSettings ==
  \/ \E updates \in SettingUpdates : UpdateSettings(updates)
  \/ GetSettings
  \/ ExportData

SpecSettings == Init /\ [][NextSettings]_vars

\* C23: whatever value (boolean, number or string) is saved under a key,
\* get_settings right after the save returns an equal value for that key.
C23_SettingsRoundTrip ==
  [][\A updates \in SettingUpdates :
       UpdateSettings(updates) =>
         \A k \in DOMAIN updates :
           updates[k].kind \in {"bool", "number", "string"} =>
             get_settings(db')[k] = updates[k]]_vars

\* C30: whatever update_settings calls came before, export_data answers 200
\* with a document that has every stored setting.
C30_ExportSucceeds ==
  [][resp'.op = "export_data" =>
       /\ resp'.status = 200
       /\ DOMAIN ExportedSettings(db') = DOMAIN db'.settings]_vars

-----------------------------------------------------------------------------
(* The daily ring over tasks that are updated, deleted and checked in twice *)

\* select(func.count(CheckinRecord.task_id)) over the join, without distinct
CompletedHabits_all_rows(d, target_date) ==
  BagSum(d.checkins,
         {x \in BagToSet(d.checkins) :
            /\ x.checkin_date = target_date
            /\ HasTask(d, x.task_id)
            /\ d.tasks[x.task_id].is_habit
            /\ ~d.tasks[x.task_id].is_deleted})

\* select(func.count(func.distinct(CheckinRecord.task_id))) over CheckinRecord
\* joined to TaskCard on task_id, where checkin_date == target_date, is_habit
\* and not is_deleted
CompletedHabits(d, target_date) ==
  Cardinality({x.task_id :
     x \in {y \in BagToSet(d.checkins) :
              /\ y.checkin_date = target_date
              /\ HasTask(d, y.task_id)
              /\ d.tasks[y.task_id].is_habit
              /\ ~d.tasks[y.task_id].is_deleted}})

\* DailyRingData without the percentage
calculate_daily_ring(d, target_date) ==
  [date |-> target_date,
   total_habits |-> Cardinality({t \in DOMAIN d.tasks :
                                   d.tasks[t].is_habit /\ ~d.tasks[t].is_deleted}),
   completed_habits |-> CompletedHabits(d, target_date)]

\* the store two overlapping check-ins of habit 1 on day 0 leave: the streak
\* went to 7 once, the record is there twice, the achievement once
RacedStore ==
  [SixDayStore EXCEPT
     !.tasks[1] = [@ EXCEPT !.current_streak = 7, !.longest_streak = 7,
                            !.last_checkin_date = Some(0)],
     !.checkins = @ (+) (CheckinRecord(1, 0, 0) :> 2),
     !.notifs = SetToBag({[AchievementNotification(1, 7) EXCEPT !.created_at = 0]})]

RingDates == {0 - 1, 0, 1}

\* GET /stats/daily-ring; the answer carries completed_habits
GetDailyRing(timezone_offset, target_date) ==
  /\ LET day == IF target_date = None THEN get_local_date(timezone_offset)
                ELSE target_date[1]
         ring == calculate_daily_ring(db, day)
     IN resp' = [ServiceResponse("get_daily_ring", ring.total_habits, None,
                                 ring.completed_habits)
                   EXCEPT !.today = Some(day)]
  /\ UNCHANGED <<db, allocated, now, serverTz, hist, sess, probe>>

InitRing ==
  /\ now = 0
  /\ db = RacedStore
  /\ allocated = {1, 2}
  /\ serverTz \in Offsets
  /\ resp = NoResponse
  /\ hist = [t \in {1, 2} |-> BrokenHist]
  /\ sess = << >>
  /\ probe = NoProbe

NextRing ==
  \/ \E t \in TaskIds, off \in Offsets : Checkin(t, off)
  \/ \E t \in TaskIds, is_habit \in BOOLEAN : UpdateTask(t, is_habit)
  \/ \E t \in TaskIds : SoftDelete(t)
  \/ \E off \in Offsets, day \in {None} \cup {Some(x) : x \in RingDates} :
       GetDailyRing(off, day)

SpecRing == InitRing /\ [][NextRing]_vars

\* C24: the ring answered for a date has total_habits = the number of tasks
\* that are habits and not deleted, completed_habits = the number of those that
\* have at least one record on the date, and 0 <= completed_habits <=
\* total_habits.
C24_DailyRingCounts ==
  resp.op = "get_daily_ring" =>
    LET day == resp.today[1]
        active == {t \in DOMAIN db.tasks : db.tasks[t].is_habit /\ ~db.tasks[t].is_deleted}
    IN /\ resp.task_id = Cardinality(active)
       /\ resp.created = Cardinality({t \in active : Recorded(db, t, day) >= 1})
       /\ 0 <= resp.created
       /\ resp.created <= resp.task_id

\* the ring of day 0 asked while habit 1 has two records on it and task 2, that
\* also has one, is deleted or no habit any more: 1 of 1
C24_Witness ==
  /\ resp.op = "get_daily_ring"
  /\ resp.today = Some(0)
  /\ Recorded(db, 1, 0) = 2
  /\ Recorded(db, 2, 0) >= 1
  /\ (db.tasks[2].is_deleted \/ ~db.tasks[2].is_habit)
  /\ resp.task_id = 1
  /\ resp.created = 1

-----------------------------------------------------------------------------
(* The daily-complete check over notifications created through the API *)

NextDaily ==
  \/ \E t \in TaskIds, off \in Offsets : Checkin(t, off)
  \/ PostDailyComplete
  \/ CheckDailyComplete
  \/ AdvanceDay

SpecDaily == InitAch /\ [][NextDaily]_vars

\* C25: with one or more daily_complete notifications of the current day in
\* the store, two or more included, a call of check_daily_complete raises
\* nothing and changes nothing, and a check-in of an existing task is answered
\* 200.
C25_ExistingDailyCompleteIsNoOp ==
  [][DailyCompleteRows(db) >= 1 =>
       /\ resp'.op = "check_daily_complete" =>
            (resp'.status = 200 /\ resp'.created = 0 /\ db' = db)
       /\ (resp'.op = "checkin_task" /\ HasTask(db, resp'.task_id)) =>
            resp'.status = 200]_vars

-----------------------------------------------------------------------------
(* Properties of the dates a check-in works with *)

\* C26: a check-in that inserts its record and leaves every active habit, at
\* least one, with last_checkin_date = the local date it resolved, while the
\* store has no daily_complete notification of the current day or for that
\* date, creates exactly one daily_complete notification.
C26_DailyCompleteUsesCheckinDate ==
  [][LET active == ActiveHabits(db')
     IN (/\ resp'.op = "checkin_task" /\ resp'.status = 200 /\ resp'.inserted
         /\ active # {}
         /\ \A h \in active : db'.tasks[h].last_checkin_date = resp'.today
         /\ DailyCompleteRows(db) = 0
         /\ \A n \in Rows(db) : n.type = "daily_complete" => n.date # resp'.today)
        => DailyCompleteCount(db') = DailyCompleteCount(db) + 1]_vars

\* C27: the task a successful check-in returns has last_checkin_date = the local
\* date the request resolved and current_streak >= 1, whether the record was
\* inserted or was there already.
C27_ResponseCarriesResolvedDate ==
  [][(resp'.op = "checkin_task" /\ resp'.status = 200) =>
       /\ db'.tasks[resp'.task_id].last_checkin_date = resp'.today
       /\ db'.tasks[resp'.task_id].current_streak >= 1]_vars

\* C27, amended: the task a successful check-in returns has current_streak >=
\* 1; where the record was inserted its last_checkin_date is the local date the
\* request resolved; where the record was there already the task is returned as
\* stored, and its last_checkin_date is a date the task has a record for.
C27_ResponseCarriesStoredTask ==
  [][(resp'.op = "checkin_task" /\ resp'.status = 200) =>
       LET row == db'.tasks[resp'.task_id]
       IN /\ row.current_streak >= 1
          /\ Recorded(db', resp'.task_id, resp'.today[1]) >= 1
          /\ resp'.inserted => row.last_checkin_date = resp'.today
          /\ ~resp'.inserted =>
               /\ db' = db
               /\ row.last_checkin_date # None
               /\ Recorded(db', resp'.task_id, row.last_checkin_date[1]) >= 1]_vars

\* a repeated check-in that resolved a date other than the one checked in last
C27_Witness ==
  /\ resp.op = "checkin_task" /\ resp.status = 200 /\ ~resp.inserted
  /\ db.tasks[resp.task_id].last_checkin_date # resp.today
  /\ db.tasks[resp.task_id].last_checkin_date[1] > resp.today[1]

-----------------------------------------------------------------------------
(* The task editor *)

\* str.strip() on the titles a client sends here
strip(s) ==
  CASE s = " walk " -> "walk"
    [] s = " " -> ""
    [] OTHER -> s

\* TaskCard(title=task_data.title.strip(), content=..., list_id=...,
\* is_habit=..., reminder_time=...): the row with the columns an edit can write
TaskCard(title, content, list_id, is_habit, reminder_time) ==
  [title |-> strip(title), content |-> content, list_id |-> list_id,
   reminder_time |-> reminder_time] @@ NewTask(is_habit)

\* reminder_utc < now - timedelta(minutes=1) raises
validate_reminder_time(v) == v = None \/ ~(v[1] < now - 1)

\* title: min_length=1 and not whitespace only
title_not_whitespace(v) == v = None \/ (v[1] # "" /\ strip(v[1]) # "")

\* the bodies of PUT /tasks/{task_id}; a field left out is None
TitleArgs == {None, Some(" walk "), Some(" ")}
ContentArgs == {None, Some("notes")}
ListArgs == {None, Some("inbox")}
HabitArgs == {None, Some(TRUE), Some(FALSE)}
ReminderArgs == {None, Some(0), Some(MinutesPerDay)}
TaskCardUpdate ==
  [title : TitleArgs, content : ContentArgs, list_id : ListArgs,
   is_habit : HabitArgs, reminder_time : ReminderArgs, clear_reminder : BOOLEAN]

\* an edit that starts the streak over when the habit flag is written
update_task_restarts_streak(d, task_id, task_data) ==
  LET task == d.tasks[task_id]
  IN [d EXCEPT !.tasks[task_id] =
        IF task_data.is_habit # None
        THEN [task EXCEPT !.is_habit = task_data.is_habit[1],
                          !.current_streak = 0, !.last_checkin_date = None]
        ELSE task]

\* the assignments of update_task, then db.commit()
update_task(d, task_id, task_data) ==
  LET task == d.tasks[task_id]
      titled == IF task_data.title # None
                THEN [task EXCEPT !.title = strip(task_data.title[1])] ELSE task
      filled == IF task_data.content # None
                THEN [titled EXCEPT !.content = task_data.content[1]] ELSE titled
      listed == IF task_data.list_id # None
                THEN [filled EXCEPT !.list_id = task_data.list_id] ELSE filled
      flagged == IF task_data.is_habit # None
                 THEN [listed EXCEPT !.is_habit = task_data.is_habit[1]] ELSE listed
      reminded == IF task_data.clear_reminder
                  THEN [flagged EXCEPT !.reminder_time = None]
                  ELSE IF task_data.reminder_time # None
                  THEN [flagged EXCEPT !.reminder_time = task_data.reminder_time]
                  ELSE flagged
  IN [d EXCEPT !.tasks[task_id] = reminded]

\* PUT /tasks/{task_id} with any body: the body is validated before the
\* handler runs, the handler answers 404 for an unknown id
EditTask(task_id, task_data) ==
  /\ IF ~(title_not_whitespace(task_data.title) /\ validate_reminder_time(task_data.reminder_time))
     THEN /\ resp' = Response("update_task", task_id, 422, None, FALSE)
          /\ UNCHANGED db
     ELSE IF ~HasTask(db, task_id)
     THEN /\ resp' = Response("update_task", task_id, 404, None, FALSE)
          /\ UNCHANGED db
     ELSE /\ db' = update_task(db, task_id, task_data)
          /\ resp' = Response("update_task", task_id, 200, None, FALSE)
  /\ UNCHANGED <<allocated, now, serverTz, hist, sess, probe>>

\* the habit of OneHabitStore with the columns create_task gave it
EditStore ==
  [OneHabitStore EXCEPT !.tasks[1] =
     [c \in DOMAIN TaskCard("run", "", None, TRUE, None) |->
        IF c \in DOMAIN @ THEN @[c] ELSE TaskCard("run", "", None, TRUE, None)[c]]]

InitEdit ==
  /\ now = Tick
  /\ db = EditStore
  /\ allocated = {1}
  /\ serverTz = 0
  /\ resp = NoResponse
  /\ hist = [t \in {1} |-> BrokenHist]
  /\ sess = << >>
  /\ probe = NoProbe

NextEdit ==
  \/ \E t \in TaskIds, off \in Offsets : Checkin(t, off)
  \/ \E t \in TaskIds, task_data \in TaskCardUpdate : EditTask(t, task_data)
  \/ \E t \in TaskIds : SoftDelete(t)
  \/ \E t \in TaskIds, fk_enforced \in BOOLEAN : HardDelete(t, fk_enforced)

SpecEdit == InitEdit /\ [][NextEdit]_vars

StreakFields(row) == [c \in StreakColumns |-> row[c]]

\* C28: an edit and a soft delete, whatever they are given, keep every task and
\* leave its current_streak, longest_streak and last_checkin_date as they were;
\* the only step that changes these columns of a task is a check-in of that
\* task that inserts a record.
C28_StreakFieldsFrame ==
  [][ /\ (resp'.op = "update_task" \/ \E t \in TaskIds : SoftDelete(t)) =>
           /\ DOMAIN db'.tasks = DOMAIN db.tasks
           /\ \A u \in DOMAIN db.tasks :
                StreakFields(db'.tasks[u]) = StreakFields(db.tasks[u])
      /\ \A u \in DOMAIN db.tasks \cap DOMAIN db'.tasks :
           StreakFields(db'.tasks[u]) # StreakFields(db.tasks[u]) =>
             /\ resp'.op = "checkin_task"
             /\ resp'.task_id = u
             /\ resp'.inserted
    ]_vars

\* the habit was checked in to a streak of seven, soft-deleted, and then an
\* edit renamed it and cleared its habit flag
C28_Witness ==
  /\ resp.op = "update_task" /\ resp.status = 200
  /\ HasTask(db, resp.task_id)
  /\ LET row == db.tasks[resp.task_id]
     IN /\ row.title = "walk"
        /\ ~row.is_habit
        /\ row.is_deleted
        /\ row.current_streak = 7
        /\ row.last_checkin_date # None

-----------------------------------------------------------------------------
(* The longest streak over time *)

\* C29: no step lowers the longest_streak of a task that is stored before and
\* after it, whether the check-ins run one after another or overlap.
C29_LongestStreakNeverDecreases ==
  [][\A t \in DOMAIN db.tasks \cap DOMAIN db'.tasks :
       db'.tasks[t].longest_streak >= db.tasks[t].longest_streak]_vars

====
